---------------------------- MODULE Spec2Model ----------------------------
(***************************************************************************)
(* Entanglement-purification simulation: lookup-table builder              *)
(* (lookup_table.py), filter and DEJMPS round (purification.py), noise     *)
(* channel (noise.py), channel estimator, tree cascade and the             *)
(* static/adaptive evaluation loop (adaptive.py, data_extraction.py).      *)
(*                                                                         *)
(* Number representation.  Real quantities are exact rationals or scaled   *)
(* integers:                                                               *)
(*   - mean fidelity of a candidate: integer, unit 0.01 (Ftarget = 90);    *)
(*   - mean yield of a candidate: integer level 0..MaxYield;               *)
(*   - a filter strength stored in the table: fixed point, unit 2^-30, so  *)
(*     that the float64 -> float32 store of best_alpha is a real rounding; *)
(*   - density matrices: integer numerators over one positive denominator. *)
(***************************************************************************)
EXTENDS Integers, Sequences, FiniteSets, TLC

\* ------------------------------------------------------------------------
\* Bounds of the model
\* ------------------------------------------------------------------------
\* yields of a candidate are the levels 0..MaxYield
MaxYield == 1
\* fidelities of a candidate are Ftarget-MaxBelow .. Ftarget (unit 0.01)
MaxBelow == 2
\* results handed over by the pool in one piece (50 of 24000 tasks in the
\* source; scaled with the task list of the model)
chunksize == 3

\* ------------------------------------------------------------------------
\* lookup_table.py: parameters
\* ------------------------------------------------------------------------
Ftarget == 90
NegInf == -1
depths == <<1, 2, 3>>

\* the sub-grid of the 20 x 20 x 3 x 20 search space that the model covers
GammaIdx == {0}
PIdx == {0, 1}
DepthIdx == {1, 2}
AlphaIdx == {0}

Cells == GammaIdx \X PIdx

\* alphas = np.linspace(0.1, 0.9, 20), k-th point (19 + 8k)/190 in units of
\* 2^-30 (2^30 = 190 * 5651272 + 144)
alphas(k) == (19 + 8 * k) * 5651272 + ((19 + 8 * k) * 144) \div 190

\* dtype=np.float32 store of a value in (2^-4, 1), unit 2^-30: 24 significant
\* bits, round to nearest, ties to even
ToFloat32(x) ==
  LET q == IF x >= 2^29 THEN 64
           ELSE IF x >= 2^28 THEN 32
           ELSE IF x >= 2^27 THEN 16
           ELSE 8
      r == x % q
      down == x - r
  IN  IF 2 * r < q THEN down
      ELSE IF 2 * r > q THEN down + q
      ELSE IF (down \div q) % 2 = 0 THEN down ELSE down + q

\* dtype=np.uint8 store
ToUint8(d) == d % 256

\* tasks = [(i, j, gamma, p_val, d, alpha) for i.. for j.. for d.. for alpha..]
\* restricted to the sub-grid; gamma and p_val are determined by (i, j)
RECURSIVE SetToSeq(_)
SetToSeq(S) ==
  IF S = {} THEN <<>>
  ELSE LET m == CHOOSE x \in S : \A y \in S : x <= y
       IN  <<m>> \o SetToSeq(S \ {m})

RECURSIVE Cross(_, _, _, _)
Cross(is, js, ds, as) ==
  IF is = <<>> THEN <<>>
  ELSE IF js = <<>> THEN Cross(Tail(is), SetToSeq(PIdx), SetToSeq(DepthIdx), SetToSeq(AlphaIdx))
  ELSE IF ds = <<>> THEN Cross(is, Tail(js), SetToSeq(DepthIdx), SetToSeq(AlphaIdx))
  ELSE IF as = <<>> THEN Cross(is, js, Tail(ds), SetToSeq(AlphaIdx))
  ELSE <<[i |-> Head(is), j |-> Head(js), d |-> depths[Head(ds)], alpha |-> alphas(Head(as))]>>
       \o Cross(is, js, ds, Tail(as))

tasks == Cross(SetToSeq(GammaIdx), SetToSeq(PIdx), SetToSeq(DepthIdx), SetToSeq(AlphaIdx))

NumTasks == Len(tasks)
TaskIds == 1..NumTasks
CellOf(t) == <<tasks[t].i, tasks[t].j>>
TasksOf(c) == {t \in TaskIds : CellOf(t) = c}

\* Pool.imap_unordered(process_task, tasks, chunksize): consecutive tasks are
\* cut into chunks; a chunk's results arrive together and in task order,
\* the chunks in any order
NumChunks == (NumTasks + chunksize - 1) \div chunksize
ChunkTasks(c) ==
  LET lo == (c - 1) * chunksize + 1
      hi == IF c * chunksize < NumTasks THEN c * chunksize ELSE NumTasks
  IN  [k \in 1..(hi - lo + 1) |-> lo + k - 1]

FidValues == (Ftarget - MaxBelow)..Ftarget
YieldValues == 0..MaxYield
Results == [f : FidValues, y : YieldValues]

VARIABLES
  res,         \* process_task: task -> (mean fidelity, mean yield)
  hist,        \* task ids in the order the aggregation loop merged them
  cur,         \* results of the chunk being consumed, not yet merged
  best_fid, best_yield, best_d, best_alpha,
  lookup,      \* the saved table, <<>> before np.save
  phase        \* "merge" | "saved"; "off" when the builder is not running

tvars == <<res, hist, cur, best_fid, best_yield, best_d, best_alpha, lookup, phase>>

VARIABLES
  args,        \* (g, p, d, alpha) of the cascade call under way
  survivors,   \* static_purification: the list of surviving pairs
  level,       \* static_purification: loop iterations completed
  sp_pc,       \* "filter" | "purify" | "finish" | "done"; "off"
  sp_out,      \* static_purification: returned (F, Y)
  rt_rho,      \* run_trial: rho
  total_y,     \* run_trial: total_y
  rt_round,    \* run_trial: loop iterations completed
  rt_pc,       \* "loop" | "done"; "off"
  rt_out       \* run_trial: returned (F, total_y)

cvars == <<args, survivors, level, sp_pc, sp_out, rt_rho, total_y, rt_round, rt_pc, rt_out>>

VARIABLES
  est_args,    \* estimate_channel: (gamma_true, p_true, N, M)
  n1,          \* estimate_channel: amplitude probes counted
  m_minus,     \* estimate_channel: phase probes counted
  est_k,       \* probes done in the loop under way
  est_pc,      \* "amp" | "phase" | "done"; "off"
  est_out      \* estimate_channel: returned (gamma_hat, p_hat, N + M)

evars == <<est_args, n1, m_minus, est_k, est_pc, est_out>>

VARIABLES
  cell,        \* main: (i, j) of the grid cell under way
  sim_pc,      \* "static" | "static_run" | "estimate" | "adaptive_run" | "done"; "off"
  st,          \* main: d_st, a_st, F_raw, F_st, Y_st, R_st of the cell
  nrows,       \* main: number of rows written to the CSV file so far
  last_row     \* main: the row written last (the file is only appended to)

svars == <<cell, sim_pc, st, nrows, last_row>>

VARIABLES
  fi_arr, fi_val,  \* find_index: arguments
  fi_out,          \* find_index: returned index
  fi_pc            \* "call" | "done"; "off"

ivars == <<fi_arr, fi_val, fi_out, fi_pc>>

vars == <<tvars, cvars, evars, svars, ivars>>

TableOff ==
  /\ res = <<>> /\ hist = <<>> /\ cur = <<>>
  /\ best_fid = <<>> /\ best_yield = <<>> /\ best_d = <<>> /\ best_alpha = <<>>
  /\ lookup = <<>> /\ phase = "off"

CascadeOff ==
  /\ args = <<>> /\ survivors = <<>> /\ level = 0 /\ sp_pc = "off" /\ sp_out = <<>>
  /\ rt_rho = <<>> /\ total_y = <<>> /\ rt_round = 0 /\ rt_pc = "off" /\ rt_out = <<>>

EstimateOff ==
  /\ est_args = <<>> /\ n1 = 0 /\ m_minus = 0 /\ est_k = 0 /\ est_pc = "off" /\ est_out = <<>>

MainOff == cell = <<>> /\ sim_pc = "off" /\ st = <<>> /\ nrows = 0 /\ last_row = <<>>

IndexOff == fi_arr = <<>> /\ fi_val = <<>> /\ fi_out = 0 /\ fi_pc = "off"

Merged == {hist[k] : k \in 1..Len(hist)}
ChunksLeft == {c \in 1..NumChunks : ChunkTasks(c)[1] \notin Merged}

\* variants of the loop body used to test the properties below
MergeCell_YieldFallback(b, d, alpha, avg_f, avg_y) ==
  IF avg_f >= Ftarget
  THEN IF avg_y > b.yield
       THEN [fid |-> avg_f, yield |-> avg_y, d |-> ToUint8(d), alpha |-> ToFloat32(alpha)]
       ELSE b
  ELSE IF avg_y > b.yield
       THEN [fid |-> avg_f, yield |-> avg_y, d |-> ToUint8(d), alpha |-> ToFloat32(alpha)]
       ELSE b

MergeCell_GeFallback(b, d, alpha, avg_f, avg_y) ==
  IF avg_f >= Ftarget
  THEN IF avg_y > b.yield
       THEN [fid |-> avg_f, yield |-> avg_y, d |-> ToUint8(d), alpha |-> ToFloat32(alpha)]
       ELSE b
  ELSE IF avg_f >= b.fid
       THEN [fid |-> avg_f, yield |-> avg_y, d |-> ToUint8(d), alpha |-> ToFloat32(alpha)]
       ELSE b

MergeCell_StaleDepth(b, d, alpha, avg_f, avg_y) ==
  IF avg_f >= Ftarget
  THEN IF avg_y > b.yield
       THEN [fid |-> avg_f, yield |-> avg_y, d |-> ToUint8(d), alpha |-> ToFloat32(alpha)]
       ELSE b
  ELSE IF avg_f > b.fid
       THEN [fid |-> avg_f, yield |-> avg_y, d |-> (IF b.d = 0 THEN ToUint8(d) ELSE b.d), alpha |-> ToFloat32(alpha)]
       ELSE b

\* the trackers of one cell as the loop body leaves them
MergeCell(b, d, alpha, avg_f, avg_y) ==
  IF avg_f >= Ftarget
  THEN IF avg_y > b.yield
       THEN [fid |-> avg_f, yield |-> avg_y, d |-> ToUint8(d), alpha |-> ToFloat32(alpha)]
       ELSE b
  ELSE IF avg_f > b.fid
       THEN [fid |-> avg_f, yield |-> avg_y, d |-> ToUint8(d), alpha |-> ToFloat32(alpha)]
       ELSE b

BestOf(c) == [fid |-> best_fid[c], yield |-> best_yield[c], d |-> best_d[c], alpha |-> best_alpha[c]]

\* variant: the trackers are indexed by the row only (best_x[i] = ...)
Merge_WholeRow(t) ==
  LET c == CellOf(t)
      n == MergeCell(BestOf(c), tasks[t].d, tasks[t].alpha, res[t].f, res[t].y)
      row == {e \in Cells : e[1] = c[1]}
  IN  /\ best_fid' = [e \in Cells |-> IF e \in row THEN n.fid ELSE best_fid[e]]
      /\ best_yield' = [e \in Cells |-> IF e \in row THEN n.yield ELSE best_yield[e]]
      /\ best_d' = [e \in Cells |-> IF e \in row THEN n.d ELSE best_d[e]]
      /\ best_alpha' = [e \in Cells |-> IF e \in row THEN n.alpha ELSE best_alpha[e]]
      /\ hist' = Append(hist, t)

\* one iteration of the aggregation loop on the result of task t
Merge(t) ==
  LET c == CellOf(t)
      n == MergeCell(BestOf(c), tasks[t].d, tasks[t].alpha, res[t].f, res[t].y)
  IN  /\ best_fid' = [best_fid EXCEPT ![c] = n.fid]
      /\ best_yield' = [best_yield EXCEPT ![c] = n.yield]
      /\ best_d' = [best_d EXCEPT ![c] = n.d]
      /\ best_alpha' = [best_alpha EXCEPT ![c] = n.alpha]
      /\ hist' = Append(hist, t)

TableInit ==
  /\ res \in [TaskIds -> Results]
  /\ hist = <<>>
  /\ cur = <<>>
  /\ best_fid = [c \in Cells |-> NegInf]
  /\ best_yield = [c \in Cells |-> NegInf]
  /\ best_d = [c \in Cells |-> 0]
  /\ best_alpha = [c \in Cells |-> 0]
  /\ lookup = <<>>
  /\ phase = "merge"
  /\ CascadeOff /\ EstimateOff /\ MainOff /\ IndexOff

\* the pool hands over a finished chunk; the loop merges its first result
MergeChunkHead(c) ==
  /\ phase = "merge"
  /\ cur = <<>>
  /\ c \in ChunksLeft
  /\ Merge(ChunkTasks(c)[1])
  /\ cur' = Tail(ChunkTasks(c))
  /\ UNCHANGED <<res, lookup, phase, cvars, evars, svars, ivars>>

\* the loop merges the next result of the chunk at hand
MergeChunkRest ==
  /\ phase = "merge"
  /\ cur # <<>>
  /\ Merge(Head(cur))
  /\ cur' = Tail(cur)
  /\ UNCHANGED <<res, lookup, phase, cvars, evars, svars, ivars>>

\* lookup = np.stack((best_d, best_alpha), axis=2); np.save
SaveTable ==
  /\ phase = "merge"
  /\ cur = <<>>
  /\ ChunksLeft = {}
  /\ lookup' = [c \in Cells |-> <<best_d[c], best_alpha[c]>>]
  /\ phase' = "saved"
  /\ UNCHANGED <<res, hist, cur, best_fid, best_yield, best_d, best_alpha, cvars, evars, svars, ivars>>

TableNext ==
  \/ \E c \in 1..NumChunks : MergeChunkHead(c)
  \/ MergeChunkRest
  \/ SaveTable

Spec == TableInit /\ [][TableNext]_vars

\* ------------------------------------------------------------------------
\* Exact arithmetic
\* ------------------------------------------------------------------------
Abs(x) == IF x < 0 THEN -x ELSE x

RECURSIVE GCD(_, _)
GCD(a, b) == IF b = 0 THEN Abs(a) ELSE GCD(b, a % b)

\* rationals [n, d] with d > 0, in lowest terms
Rat(n, d) ==
  LET g == GCD(n, d)
      sg == IF d < 0 THEN -1 ELSE 1
  IN  [n |-> sg * (n \div g), d |-> sg * (d \div g)]
RZero == [n |-> 0, d |-> 1]
ROne == [n |-> 1, d |-> 1]
RMul(a, b) ==
  LET g1 == GCD(a.n, b.d)
      g2 == GCD(b.n, a.d)
  IN  IF a.n = 0 \/ b.n = 0 THEN RZero
      ELSE [n |-> (a.n \div g1) * (b.n \div g2), d |-> (a.d \div g2) * (b.d \div g1)]
RAdd(a, b) ==
  LET g == GCD(a.d, b.d)
  IN  Rat(a.n * (b.d \div g) + b.n * (a.d \div g), (a.d \div g) * b.d)
RSub(a, b) == RAdd(a, [n |-> -b.n, d |-> b.d])
\* a.n * b.d - b.n * a.d with the common factors of the numerators and of the
\* denominators taken out first
RCmp(a, b) ==
  LET g == GCD(a.d, b.d)
      h == IF a.n = 0 /\ b.n = 0 THEN 1 ELSE GCD(a.n, b.n)
  IN  (a.n \div h) * (b.d \div g) - (b.n \div h) * (a.d \div g)
RLess(a, b) == a.n * b.d < b.n * a.d
RLeq(a, b) == a.n * b.d <= b.n * a.d
RAbs(a) == [n |-> Abs(a.n), d |-> a.d]

\* ------------------------------------------------------------------------
\* Quantum states.  A 2-qubit Qobj is [m, den]: the real matrix m / den with
\* m an integer 4 x 4 matrix (a tuple of rows) and den > 0; basis state
\* |a b> (qubit A first) has index 2 * a + b.  None (a failed filter or round)
\* is the record with den = 0.
\* ------------------------------------------------------------------------
Idx == 0..3
QA(i) == i \div 2
QB(i) == i % 2

\* entry (i, j), 0-based
Ent(rho, i, j) == rho.m[i + 1][j + 1]

\* the 4 x 4 matrix with entries F(i, j)
Mat(F(_, _)) ==
  << <<F(0, 0), F(0, 1), F(0, 2), F(0, 3)>>,
     <<F(1, 0), F(1, 1), F(1, 2), F(1, 3)>>,
     <<F(2, 0), F(2, 1), F(2, 2), F(2, 3)>>,
     <<F(3, 0), F(3, 1), F(3, 2), F(3, 3)>> >>

Sum4(F(_)) == F(0) + F(1) + F(2) + F(3)

RECURSIVE GCDSeq(_, _)
GCDSeq(s, k) == IF k = 0 THEN 0 ELSE GCD(s[k], GCDSeq(s, k - 1))

ZeroM == Mat(LAMBDA i, j : 0)
None == [m |-> ZeroM, den |-> 0]
IsNone(rho) == rho.den = 0

\* the same matrix with numerators and denominator in lowest terms
Reduce(rho) ==
  LET flat == rho.m[1] \o rho.m[2] \o rho.m[3] \o rho.m[4]
      g == GCD(rho.den, GCDSeq(flat, 16))
  IN  [m |-> Mat(LAMBDA i, j : Ent(rho, i, j) \div g), den |-> rho.den \div g]

\* numerator of the trace
TrNum(rho) == Sum4(LAMBDA i : Ent(rho, i, i))
\* Qobj.tr()
Tr(rho) == Rat(TrNum(rho), rho.den)

\* qt.bell_state('00').proj() = |Phi+><Phi+|
bell_proj ==
  [m |-> Mat(LAMBDA i, j : IF i \in {0, 3} /\ j \in {0, 3} THEN 1 ELSE 0), den |-> 2]

\* (bell_proj * rho).tr(): overlap of rho with |Phi+>
Overlap(rho) ==
  Rat(Sum4(LAMBDA i : Sum4(LAMBDA j : Ent(bell_proj, i, j) * Ent(rho, j, i))),
      bell_proj.den * rho.den)

\* states whose only non-zero entries are in the blocks {00, 11} and {01, 10}
XEntry(i, j) == (i \in {0, 3} /\ j \in {0, 3}) \/ (i \in {1, 2} /\ j \in {1, 2})
IsXState(rho) == \A i, j \in Idx : Ent(rho, i, j) # 0 => XEntry(i, j)

\* ------------------------------------------------------------------------
\* noise.py.  A Kraus operator sqrt(sq) * a / ad is the record [sq, a, ad]
\* (sq a rational, a an integer 2 x 2 matrix).  The damping strength gamma is
\* given by g = [sn, sd] with sqrt(1 - gamma) = sn / sd; p is a rational.
\* ------------------------------------------------------------------------
Gamma(g) == Rat(g.sd * g.sd - g.sn * g.sn, g.sd * g.sd)

amp_damp_kraus(g) ==
  << [sq |-> ROne, a |-> <<<<g.sd, 0>>, <<0, g.sn>>>>, ad |-> g.sd],
     [sq |-> Gamma(g), a |-> <<<<0, 1>>, <<0, 0>>>>, ad |-> 1] >>

phase_damp_kraus(p) ==
  << [sq |-> RSub(ROne, p), a |-> <<<<1, 0>>, <<0, 1>>>>, ad |-> 1],
     [sq |-> p, a |-> <<<<1, 0>>, <<0, -1>>>>, ad |-> 1] >>

\* entry (i, k) of qt.tensor(k1, k2), numerator
TensorEntry(k1, k2, i, k) == k1.a[QA(i) + 1][QA(k) + 1] * k2.a[QB(i) + 1][QB(k) + 1]

\* K * rho * K.dag() for K = tensor(k1, k2)
KrausTerm(k1, k2, rho) ==
  LET c == RMul(k1.sq, k2.sq)
      K == Mat(LAMBDA i, k : TensorEntry(k1, k2, i, k))
      KrK(i, j) == Sum4(LAMBDA k : Sum4(LAMBDA l :
                     K[i + 1][k + 1] * Ent(rho, k, l) * K[j + 1][l + 1]))
  IN  Reduce([m |-> Mat(LAMBDA i, j : c.n * KrK(i, j)),
              den |-> c.d * rho.den * (k1.ad * k2.ad) * (k1.ad * k2.ad)])

\* out += ...
AddM(x, y) ==
  Reduce([m |-> Mat(LAMBDA i, j : Ent(x, i, j) * y.den + Ent(y, i, j) * x.den),
          den |-> x.den * y.den])

two_qubit_noise(rho, g, p) ==
  LET K1 == amp_damp_kraus(g)
      K2 == phase_damp_kraus(p)
      out0 == [m |-> ZeroM, den |-> 1]
      out1 == AddM(out0, KrausTerm(K1[1], K2[1], rho))
      out2 == AddM(out1, KrausTerm(K1[1], K2[2], rho))
      out3 == AddM(out2, KrausTerm(K1[2], K2[1], rho))
  IN  AddM(out3, KrausTerm(K1[2], K2[2], rho))

\* simulate.py redefines phase_damp_kraus (second operator sqrt(p) * sigmaz / 2)
\* and two_qubit_noise on top of it; run_static, run_adaptive and, once the
\* module is loaded, simulate_run call these
sim_phase_damp_kraus(p) ==
  << [sq |-> RSub(ROne, p), a |-> <<<<1, 0>>, <<0, 1>>>>, ad |-> 1],
     [sq |-> p, a |-> <<<<1, 0>>, <<0, -1>>>>, ad |-> 2] >>

sim_two_qubit_noise(rho, g, p) ==
  LET K1 == amp_damp_kraus(g)
      K2 == sim_phase_damp_kraus(p)
      out0 == [m |-> ZeroM, den |-> 1]
      out1 == AddM(out0, KrausTerm(K1[1], K2[1], rho))
      out2 == AddM(out1, KrausTerm(K1[1], K2[2], rho))
      out3 == AddM(out2, KrausTerm(K1[2], K2[1], rho))
  IN  AddM(out3, KrausTerm(K1[2], K2[2], rho))

\* ------------------------------------------------------------------------
\* purification.py
\* ------------------------------------------------------------------------
\* apply_filter: F = diag(sqrt(alpha), sqrt(1 - alpha)), F2 = F (x) F.  Entry
\* (i, j) of F2 * rho * F2.dag() is sqrt(w_i * w_j) * rho_ij with
\* w = (alpha^2, alpha(1-alpha), alpha(1-alpha), (1-alpha)^2); on the entries
\* of an X state the factor is rational, numerator below over alpha.d^2.
FilterWeight(alpha, i, j) ==
  LET a == alpha.n
      b == alpha.d - alpha.n
  IN  IF i = j THEN (IF i = 0 THEN a * a ELSE IF i = 3 THEN b * b ELSE a * b)
      ELSE a * b

apply_filter(rho, alpha) ==
  LET rho_f == [m |-> Mat(LAMBDA i, j :
                        IF Ent(rho, i, j) = 0 THEN 0 ELSE FilterWeight(alpha, i, j) * Ent(rho, i, j)),
                den |-> rho.den * alpha.d * alpha.d]
      p_filt == Tr(rho_f)
  IN  IF p_filt.n = 0
      THEN [rho |-> None, p |-> RZero]
      ELSE [rho |-> Reduce([m |-> rho_f.m, den |-> TrNum(rho_f)]), p |-> p_filt]

\* 4-qubit basis index 8 * A1 + 4 * B1 + 2 * A2 + B2
Idx4 == 0..15
Bit(i, q) == (i \div (2 ^ (3 - q))) % 2

\* cnot_4qubit(control, target) = P0 (x) I.. + P1 (x) X..: entry (i, j)
cnot_4qubit(control, target, i, j) ==
  LET term(pr) ==
        IF \A q \in 0..3 :
             IF q = control THEN Bit(i, q) = pr /\ Bit(j, q) = pr
             ELSE IF q = target
                  THEN (IF pr = 1 THEN Bit(i, q) # Bit(j, q) ELSE Bit(i, q) = Bit(j, q))
                  ELSE Bit(i, q) = Bit(j, q)
        THEN 1 ELSE 0
  IN  term(0) + term(1)

\* the column of the non-zero entry in each row (0..15) of the operator
CnotCols(control, target) ==
  LET c(i) == CHOOSE j \in Idx4 : cnot_4qubit(control, target, i, j) # 0
  IN  << c(0), c(1), c(2), c(3), c(4), c(5), c(6), c(7),
         c(8), c(9), c(10), c(11), c(12), c(13), c(14), c(15) >>
\* variant: Alice's control and target exchanged
CNOT_A_Reversed == CnotCols(2, 0)

CNOT_A == CnotCols(0, 2)
\* variant: Bob's control is Alice's target qubit
CNOT_B_ControlA2 == CnotCols(2, 3)
CNOT_B == CnotCols(1, 3)

\* variant: only the 00 outcome is kept
dejmps_purify_Only00(rho1, rho2) ==
  LET \* entry (i, j) of qt.tensor(rho1, rho2), numerator
      rho_combined(i, j) == Ent(rho1, i \div 4, j \div 4) * Ent(rho2, i % 4, j % 4)
      \* CNOT_B * (CNOT_A * rho_combined * CNOT_A.dag()) * CNOT_B.dag()
      afterA(i, j) == rho_combined(CNOT_A[i + 1], CNOT_A[j + 1])
      rho_after(i, j) == afterA(CNOT_B[i + 1], CNOT_B[j + 1])
      \* rho_00 + rho_11, then ptrace([0, 1])
      kept == [m |-> Mat(LAMBDA i, j : rho_after(4 * i, 4 * j)),
               den |-> 1]
      psum == TrNum(kept)
      success_prob == RMul(Rat(psum, rho1.den), Rat(1, rho2.den))
  IN  IF success_prob.n = 0
      THEN [rho |-> None, p |-> RZero]
      ELSE [rho |-> Reduce([m |-> kept.m, den |-> psum]), p |-> success_prob]

dejmps_purify(rho1, rho2) ==
  LET \* entry (i, j) of qt.tensor(rho1, rho2), numerator
      rho_combined(i, j) == Ent(rho1, i \div 4, j \div 4) * Ent(rho2, i % 4, j % 4)
      \* CNOT_B * (CNOT_A * rho_combined * CNOT_A.dag()) * CNOT_B.dag()
      afterA(i, j) == rho_combined(CNOT_A[i + 1], CNOT_A[j + 1])
      rho_after(i, j) == afterA(CNOT_B[i + 1], CNOT_B[j + 1])
      \* rho_00 + rho_11, then ptrace([0, 1])
      kept == [m |-> Mat(LAMBDA i, j : rho_after(4 * i, 4 * j) + rho_after(4 * i + 3, 4 * j + 3)),
               den |-> 1]
      psum == TrNum(kept)
      success_prob == RMul(Rat(psum, rho1.den), Rat(1, rho2.den))
  IN  IF success_prob.n = 0
      THEN [rho |-> None, p |-> RZero]
      ELSE [rho |-> Reduce([m |-> kept.m, den |-> psum]), p |-> success_prob]

\* ------------------------------------------------------------------------
\* Cascades: static_purification (adaptive.py, data_extraction.py) and
\* run_trial (lookup_table.py), on inputs drawn from the sets below
\* ------------------------------------------------------------------------
\* sqrt(1 - gamma) in {1, 1/2, 0}: gamma in {0, 3/4, 1}
GammaParams == {[sn |-> 1, sd |-> 1], [sn |-> 1, sd |-> 2], [sn |-> 0, sd |-> 1]}
PParams == {Rat(0, 1), Rat(1, 4), Rat(1, 2)}
\* alpha = 0 makes the filter of the fully damped pair |00><00| fail
AlphaParams == {Rat(0, 1), Rat(1, 4), Rat(1, 2), Rat(3, 4)}
NoGamma == [sn |-> 1, sd |-> 1]

\* variant: rand() <= pr
CanPass_Leq(pr) == pr.n >= 0

\* variant: the result is kept whenever rand() <= p, without the test
\* "is not None"
Draw_KeepsNull(r, kept) ==
  IF kept THEN r.p.n >= 0
  ELSE IsNone(r.rho) \/ RLess(r.p, ROne)

\* np.random.rand() is in [0, 1): rand() < pr can come out true iff pr > 0,
\* false iff pr < 1
CanPass(pr) == pr.n > 0
CanFail(pr) == RLess(pr, ROne)
\* kept is a possible outcome of the draw for a result r = (rho, p)
Draw(r, kept) ==
  IF kept THEN ~IsNone(r.rho) /\ CanPass(r.p)
  ELSE IsNone(r.rho) \/ CanFail(r.p)

\* s without its k-th element
Without(s, k) == [n \in 1..(Len(s) - 1) |-> IF n < k THEN s[n] ELSE s[n + 1]]

\* np.random.shuffle: the distinct orders of the list s
RECURSIVE Shuffles(_)
Shuffles(s) ==
  IF s = <<>> THEN {<<>>}
  ELSE LET firsts == {k \in 1..Len(s) : \A n \in 1..(k - 1) : s[n] # s[k]}
       IN  UNION {{<<s[k]>> \o r : r \in Shuffles(Without(s, k))} : k \in firsts}

\* [apply_filter(rho, alpha) for rho in s]
RECURSIVE FilterAll(_, _)
FilterAll(s, alpha) ==
  IF s = <<>> THEN <<>> ELSE <<apply_filter(Head(s), alpha)>> \o FilterAll(Tail(s), alpha)

\* [dejmps_purify(s[idx], s[idx+1]) for idx in range(0, len(s)-1, 2)]
RECURSIVE PurifyPairs(_)
PurifyPairs(s) ==
  IF Len(s) < 2 THEN <<>>
  ELSE <<dejmps_purify(s[1], s[2])>> \o PurifyPairs(Tail(Tail(s)))

\* the states of the results at the (ascending) positions K
RECURSIVE PickRho(_, _)
PickRho(out, K) ==
  IF K = {} THEN <<>>
  ELSE LET k == CHOOSE x \in K : \A y \in K : x <= y
       IN  <<out[k].rho>> \o PickRho(out, K \ {k})

RECURSIVE RSumSeq(_)
RSumSeq(s) == IF s = <<>> THEN RZero ELSE RAdd(Head(s), RSumSeq(Tail(s)))

\* variant: the yield is overwritten by the product of the round, not
\* multiplied by it
TrialStep_Reset(x, rho, y) ==
  LET f1 == apply_filter(rho, x.alpha)
      f2 == apply_filter(two_qubit_noise(bell_proj, x.g, x.p), x.alpha)
  IN  IF f1.p.n = 0 \/ f2.p.n = 0 THEN [failed |-> TRUE, rho |-> None, y |-> RZero]
      ELSE LET pu == dejmps_purify(f1.rho, f2.rho)
           IN  IF IsNone(pu.rho) \/ pu.p.n = 0
               THEN [failed |-> TRUE, rho |-> None, y |-> RZero]
               ELSE [failed |-> FALSE, rho |-> pu.rho, y |-> RMul(RMul(f1.p, f2.p), pu.p)]

\* run_trial as a function of its arguments: one iteration of its loop on
\* (rho, total_y); failed when it returns 0.0, 0.0
TrialStep(x, rho, y) ==
  LET f1 == apply_filter(rho, x.alpha)
      f2 == apply_filter(two_qubit_noise(bell_proj, x.g, x.p), x.alpha)
  IN  IF f1.p.n = 0 \/ f2.p.n = 0 THEN [failed |-> TRUE, rho |-> None, y |-> RZero]
      ELSE LET pu == dejmps_purify(f1.rho, f2.rho)
           IN  IF IsNone(pu.rho) \/ pu.p.n = 0
               THEN [failed |-> TRUE, rho |-> None, y |-> RZero]
               ELSE [failed |-> FALSE, rho |-> pu.rho,
                     y |-> RMul(RMul(RMul(y, f1.p), f2.p), pu.p)]

\* the rounds k+1 .. x.d, then F and total_y; rounds counts the iterations
\* started
RECURSIVE TrialFrom(_, _, _, _)
TrialFrom(x, rho, y, k) ==
  IF k = x.d THEN [F |-> Overlap(rho), y |-> y, rounds |-> k]
  ELSE LET r == TrialStep(x, rho, y)
       IN  IF r.failed THEN [F |-> RZero, y |-> RZero, rounds |-> k + 1]
           ELSE TrialFrom(x, r.rho, r.y, k + 1)

run_trial(x) == TrialFrom(x, two_qubit_noise(bell_proj, x.g, x.p), ROne, 0)

\* the two_qubit_noise that a function of simulate.py calls: noise.py's while
\* the module body is still running (the sweep under __main__, line 64), the
\* redefinition of line 92 once the module is loaded
SimNoise(redefined, rho, g, p) ==
  IF redefined THEN sim_two_qubit_noise(rho, g, p) ELSE two_qubit_noise(rho, g, p)

\* simulate_run(gamma, p, depth) of simulate.py: every round purifies the
\* current state with the same second pair rho2; F2 is the overlap with
\* |Phi+>, of which qt.fidelity returns the square root
RECURSIVE SimFrom(_, _, _, _, _)
SimFrom(depth, current_rho, rho2, y, k) ==
  IF k = depth THEN [F2 |-> Overlap(current_rho), y |-> y, rounds |-> k]
  ELSE LET pu == dejmps_purify(current_rho, rho2)
       IN  IF pu.p.n = 0 \/ IsNone(pu.rho) THEN [F2 |-> RZero, y |-> RZero, rounds |-> k + 1]
           ELSE SimFrom(depth, pu.rho, rho2, RMul(y, pu.p), k + 1)

simulate_run(redefined, g, p, depth) ==
  SimFrom(depth, SimNoise(redefined, bell_proj, g, p), SimNoise(redefined, bell_proj, g, p), ROne, 0)

\* depth 3 only with alpha = 1/2: the other products leave the 32-bit range
Inputs ==
  {x \in [g : GammaParams, p : PParams, d : {depths[k] : k \in 1..Len(depths)}, alpha : AlphaParams] :
     x.d < 3 \/ x.alpha = Rat(1, 2)}

\* a call of static_purification(g, p, d, alpha)
TreeInit ==
  /\ args \in Inputs
  /\ survivors = [k \in 1..(2 ^ args.d) |-> two_qubit_noise(bell_proj, args.g, args.p)]
  /\ level = 0
  /\ sp_pc = "filter"
  /\ sp_out = <<>>
  /\ rt_rho = <<>> /\ total_y = <<>> /\ rt_round = 0 /\ rt_pc = "off" /\ rt_out = <<>>

\* a call of run_trial(gamma, p, d, alpha)
TrialInit ==
  /\ args \in Inputs
  /\ rt_rho = two_qubit_noise(bell_proj, args.g, args.p)
  /\ total_y = ROne
  /\ rt_round = 0
  /\ rt_pc = "loop"
  /\ rt_out = <<>>
  /\ survivors = <<>> /\ level = 0 /\ sp_pc = "off" /\ sp_out = <<>>

CascadeInit ==
  /\ TreeInit \/ TrialInit
  /\ TableOff /\ EstimateOff /\ MainOff /\ IndexOff

\* survivors = [rho_f for rho in survivors for rho_f, pf in
\*              [apply_filter(rho, alpha)] if rho_f is not None and rand() < pf]
SP_Filter ==
  /\ sp_pc = "filter"
  /\ LET out == FilterAll(survivors, args.alpha)
     IN  \E K \in SUBSET (1..Len(out)) :
           /\ \A k \in 1..Len(out) : Draw(out[k], k \in K)
           /\ survivors' = PickRho(out, K)
  /\ sp_pc' = "purify"
  /\ UNCHANGED <<args, level, sp_out, rt_rho, total_y, rt_round, rt_pc, rt_out, tvars, evars, svars, ivars>>

\* variant: when a round fails, its first input pair stays in the list
SP_Purify_KeepFailed ==
  /\ sp_pc = "purify"
  /\ \E sh \in Shuffles(survivors) :
       LET out == PurifyPairs(sh)
       IN  \E K \in SUBSET (1..Len(out)) :
             /\ \A q \in 1..Len(out) : Draw(out[q], q \in K)
             /\ survivors' = [q \in 1..Len(out) |-> IF q \in K THEN out[q].rho ELSE sh[2 * q - 1]]
  /\ level' = level + 1
  /\ sp_pc' = IF survivors' = <<>> \/ level + 1 = args.d THEN "finish" ELSE "filter"
  /\ UNCHANGED <<args, sp_out, rt_rho, total_y, rt_round, rt_pc, rt_out, tvars, evars, svars, ivars>>

\* variant: with an odd number of survivors the unpaired last one is carried
\* to the next level
SP_Purify_CarryOdd ==
  /\ sp_pc = "purify"
  /\ \E sh \in Shuffles(survivors) :
       LET out == PurifyPairs(sh)
       IN  \E K \in SUBSET (1..Len(out)) :
             /\ \A q \in 1..Len(out) : Draw(out[q], q \in K)
             /\ survivors' = PickRho(out, K) \o (IF Len(sh) % 2 = 1 THEN <<sh[Len(sh)]>> ELSE <<>>)
  /\ level' = level + 1
  /\ sp_pc' = IF survivors' = <<>> \/ level + 1 = args.d THEN "finish" ELSE "filter"
  /\ UNCHANGED <<args, sp_out, rt_rho, total_y, rt_round, rt_pc, rt_out, tvars, evars, svars, ivars>>

\* variant: the loop does not break on an empty survivor list
SP_Purify_NoBreak ==
  /\ sp_pc = "purify"
  /\ \E sh \in Shuffles(survivors) :
       LET out == PurifyPairs(sh)
       IN  \E K \in SUBSET (1..Len(out)) :
             /\ \A q \in 1..Len(out) : Draw(out[q], q \in K)
             /\ survivors' = PickRho(out, K)
  /\ level' = level + 1
  /\ sp_pc' = IF level + 1 = args.d THEN "finish" ELSE "filter"
  /\ UNCHANGED <<args, sp_out, rt_rho, total_y, rt_round, rt_pc, rt_out, tvars, evars, svars, ivars>>

\* shuffle, one DEJMPS round per consecutive pair, survivors = new, break
\* when no survivor is left
SP_Purify ==
  /\ sp_pc = "purify"
  /\ \E sh \in Shuffles(survivors) :
       LET out == PurifyPairs(sh)
       IN  \E K \in SUBSET (1..Len(out)) :
             /\ \A q \in 1..Len(out) : Draw(out[q], q \in K)
             /\ survivors' = PickRho(out, K)
  /\ level' = level + 1
  /\ sp_pc' = IF survivors' = <<>> \/ level + 1 = args.d THEN "finish" ELSE "filter"
  /\ UNCHANGED <<args, sp_out, rt_rho, total_y, rt_round, rt_pc, rt_out, tvars, evars, svars, ivars>>

\* init, final = 2**d, len(survivors); Y = final/init; F_static = mean
\* overlap of the survivors (0.0 without survivors); return F_raw, F_static, Y.
\* (adaptive.py has the same loop, returns no F_raw and averages
\* qutip.fidelity, the square root of each survivor's overlap.)
SP_Finish ==
  /\ sp_pc = "finish"
  /\ LET init == 2 ^ args.d
         final == Len(survivors)
         Y == IF init > 0 THEN Rat(final, init) ELSE RZero
         F == IF final > 0
              THEN RMul(RSumSeq([k \in 1..final |-> Overlap(survivors[k])]), Rat(1, final))
              ELSE RZero
     IN  sp_out' = [F_raw |-> Overlap(two_qubit_noise(bell_proj, args.g, args.p)), F |-> F, Y |-> Y]
  /\ sp_pc' = "done"
  /\ UNCHANGED <<args, survivors, level, rt_rho, total_y, rt_round, rt_pc, rt_out, tvars, evars, svars, ivars>>

\* variant: a zero probability of the first filter does not end the trial
RT_Round_IgnoresZeroFilter ==
  /\ rt_pc = "loop"
  /\ rt_round < args.d
  /\ LET f1 == apply_filter(rt_rho, args.alpha)
         rho2 == two_qubit_noise(bell_proj, args.g, args.p)
         f2 == apply_filter(rho2, args.alpha)
         y1 == RMul(total_y, f1.p)
         y2 == RMul(y1, f2.p)
     IN  IF f1.p.n = 0
         THEN /\ total_y' = y1
              /\ rt_round' = rt_round + 1
              /\ UNCHANGED <<rt_rho, rt_out, rt_pc>>
         ELSE IF f2.p.n = 0
         THEN /\ rt_out' = [F |-> RZero, y |-> RZero]
              /\ rt_pc' = "done"
              /\ total_y' = y2
              /\ UNCHANGED <<rt_rho, rt_round>>
         ELSE LET pu == dejmps_purify(f1.rho, f2.rho)
              IN  /\ total_y' = RMul(y2, pu.p)
                  /\ IF IsNone(pu.rho) \/ pu.p.n = 0
                     THEN /\ rt_out' = [F |-> RZero, y |-> RZero]
                          /\ rt_pc' = "done"
                          /\ UNCHANGED <<rt_rho, rt_round>>
                     ELSE /\ rt_rho' = pu.rho
                          /\ rt_round' = rt_round + 1
                          /\ UNCHANGED <<rt_out, rt_pc>>
  /\ UNCHANGED <<args, survivors, level, sp_pc, sp_out, tvars, evars, svars, ivars>>

\* one iteration of the loop of run_trial
RT_Round ==
  /\ rt_pc = "loop"
  /\ rt_round < args.d
  /\ LET f1 == apply_filter(rt_rho, args.alpha)
         rho2 == two_qubit_noise(bell_proj, args.g, args.p)
         f2 == apply_filter(rho2, args.alpha)
         y1 == RMul(total_y, f1.p)
         y2 == RMul(y1, f2.p)
     IN  IF f1.p.n = 0
         THEN /\ rt_out' = [F |-> RZero, y |-> RZero]
              /\ rt_pc' = "done"
              /\ total_y' = y1
              /\ UNCHANGED <<rt_rho, rt_round>>
         ELSE IF f2.p.n = 0
         THEN /\ rt_out' = [F |-> RZero, y |-> RZero]
              /\ rt_pc' = "done"
              /\ total_y' = y2
              /\ UNCHANGED <<rt_rho, rt_round>>
         ELSE LET pu == dejmps_purify(f1.rho, f2.rho)
              IN  /\ total_y' = RMul(y2, pu.p)
                  /\ IF IsNone(pu.rho) \/ pu.p.n = 0
                     THEN /\ rt_out' = [F |-> RZero, y |-> RZero]
                          /\ rt_pc' = "done"
                          /\ UNCHANGED <<rt_rho, rt_round>>
                     ELSE /\ rt_rho' = pu.rho
                          /\ rt_round' = rt_round + 1
                          /\ UNCHANGED <<rt_out, rt_pc>>
  /\ UNCHANGED <<args, survivors, level, sp_pc, sp_out, tvars, evars, svars, ivars>>

\* F = float((bell_proj * rho).tr().real); return F, total_y
RT_Finish ==
  /\ rt_pc = "loop"
  /\ rt_round = args.d
  /\ rt_out' = [F |-> Overlap(rt_rho), y |-> total_y]
  /\ rt_pc' = "done"
  /\ UNCHANGED <<args, survivors, level, sp_pc, sp_out, rt_rho, total_y, rt_round, tvars, evars, svars, ivars>>

CascadeNext == SP_Filter \/ SP_Purify \/ SP_Finish \/ RT_Round \/ RT_Finish

SpecCascade == CascadeInit /\ [][CascadeNext]_vars


\* ------------------------------------------------------------------------
\* estimate_channel (adaptive.py, data_extraction.py)
\* ------------------------------------------------------------------------
\* probe budgets tried when estimate_channel is called on its own
MaxN == 2
MaxM == 2

\* 1-qubit Qobj: [m, den] with m an integer 2 x 2 matrix
Mat2(F(_, _)) == << <<F(0, 0), F(0, 1)>>, <<F(1, 0), F(1, 1)>> >>
Ent2(rho, i, j) == rho.m[i + 1][j + 1]
Sum2(F(_)) == F(0) + F(1)

\* proj1 = |1><1|, plus*plus.dag(), proj_minus = minus*minus.dag()
proj1 == [m |-> <<<<0, 0>>, <<0, 1>>>>, den |-> 1]
plus_proj == [m |-> <<<<1, 1>>, <<1, 1>>>>, den |-> 2]
proj_minus == [m |-> <<<<1, -1>>, <<-1, 1>>>>, den |-> 2]

\* (x * y).tr()
TrProd2(x, y) == Rat(Sum2(LAMBDA i : Sum2(LAMBDA j : Ent2(x, i, j) * Ent2(y, j, i))), x.den * y.den)

\* single_qubit_noise: K_single = [b * a for a in A for b in B];
\* out = sum of K * rho * K.dag()
single_qubit_noise(rho, g, p) ==
  LET A == amp_damp_kraus(g)
      B == phase_damp_kraus(p)
      term(a, b) ==
        LET K == Mat2(LAMBDA i, k : Sum2(LAMBDA n : b.a[i + 1][n + 1] * a.a[n + 1][k + 1]))
            c == RMul(b.sq, a.sq)
            kd == b.ad * a.ad
        IN  [i \in 0..1 |-> [j \in 0..1 |->
               Rat(c.n * Sum2(LAMBDA k : Sum2(LAMBDA l : K[i + 1][k + 1] * Ent2(rho, k, l) * K[j + 1][l + 1])),
                   c.d * rho.den * kd * kd)]]
      sum(i, j) == RAdd(RAdd(term(A[1], B[1])[i][j], term(A[1], B[2])[i][j]),
                        RAdd(term(A[2], B[1])[i][j], term(A[2], B[2])[i][j]))
      den == (sum(0, 0).d * sum(0, 1).d) * (sum(1, 0).d * sum(1, 1).d)
  IN  [m |-> Mat2(LAMBDA i, j : sum(i, j).n * (den \div sum(i, j).d)), den |-> den]

\* probability that an amplitude probe is counted: (proj1 * rho_out).tr()
AmpProb(g) == TrProd2(proj1, single_qubit_noise(proj1, g, RZero))
\* probability that a phase probe is counted: (proj_minus * rho_out).tr()
PhaseProb(p) == TrProd2(proj_minus, single_qubit_noise(plus_proj, NoGamma, p))

\* whether np.random.rand() < pr counts the probe
Counted(pr, hit) == IF hit THEN CanPass(pr) ELSE CanFail(pr)

EstimateInputs == [g : GammaParams, p : PParams, N : 1..MaxN, M : 1..MaxM]

\* entry of estimate_channel(gamma_true, p_true, N, M)
EstimateCall(a) ==
  /\ est_args' = a
  /\ n1' = 0
  /\ m_minus' = 0
  /\ est_k' = 0
  /\ est_pc' = "amp"
  /\ est_out' = <<>>

EstimateInit ==
  /\ est_args \in EstimateInputs
  /\ n1 = 0 /\ m_minus = 0 /\ est_k = 0 /\ est_pc = "amp" /\ est_out = <<>>
  /\ TableOff /\ CascadeOff /\ MainOff /\ IndexOff

\* one amplitude probe
ProbeAmp ==
  /\ est_pc = "amp"
  /\ est_k < est_args.N
  /\ \E hit \in BOOLEAN :
       /\ Counted(AmpProb(est_args.g), hit)
       /\ n1' = IF hit THEN n1 + 1 ELSE n1
  /\ est_k' = est_k + 1
  /\ UNCHANGED <<est_args, m_minus, est_pc, est_out, tvars, cvars, svars, ivars>>

\* gamma_hat = 1 - n1/N is fixed; the phase loop starts
AmpDone ==
  /\ est_pc = "amp"
  /\ est_k = est_args.N
  /\ est_out' = [gamma_hat |-> RSub(ROne, Rat(n1, est_args.N))]
  /\ est_k' = 0
  /\ est_pc' = "phase"
  /\ UNCHANGED <<est_args, n1, m_minus, tvars, cvars, svars, ivars>>

\* one phase probe
ProbePhase ==
  /\ est_pc = "phase"
  /\ est_k < est_args.M
  /\ \E hit \in BOOLEAN :
       /\ Counted(PhaseProb(est_args.p), hit)
       /\ m_minus' = IF hit THEN m_minus + 1 ELSE m_minus
  /\ est_k' = est_k + 1
  /\ UNCHANGED <<est_args, n1, est_pc, est_out, tvars, cvars, svars, ivars>>

\* p_hat = 2*m_minus/M; return gamma_hat, p_hat, N+M
PhaseDone ==
  /\ est_pc = "phase"
  /\ est_k = est_args.M
  /\ est_out' = [gamma_hat |-> est_out.gamma_hat,
                 p_hat |-> Rat(2 * m_minus, est_args.M),
                 cost |-> est_args.N + est_args.M]
  /\ est_pc' = "done"
  /\ UNCHANGED <<est_args, n1, m_minus, est_k, tvars, cvars, svars, ivars>>

EstimateNext == ProbeAmp \/ AmpDone \/ ProbePhase \/ PhaseDone

SpecEstimate == EstimateInit /\ [][EstimateNext]_vars

\* ------------------------------------------------------------------------
\* find_index (adaptive.py, data_extraction.py)
\* ------------------------------------------------------------------------
\* longest grid and widest query range tried
MaxGrid == 4
MaxVal == 12

\* ndarray.argmin(): index (1-based here) of the first minimum
RECURSIVE ArgMinFrom_Last(_, _, _)
ArgMinFrom_Last(s, k, b) ==
  IF k > Len(s) THEN b
  ELSE ArgMinFrom_Last(s, k + 1, IF RLeq(s[k], s[b]) THEN k ELSE b)

RECURSIVE ArgMinFrom(_, _, _)
ArgMinFrom(s, k, b) ==
  IF k > Len(s) THEN b
  ELSE ArgMinFrom(s, k + 1, IF RLess(s[k], s[b]) THEN k ELSE b)

\* variant: the position is returned 1-based
find_index_OneBased(arr, val) ==
  ArgMinFrom([k \in 1..Len(arr) |-> RAbs(RSub(arr[k], val))], 2, 1)

\* np.abs(arr - val).argmin(), 0-based
find_index(arr, val) ==
  ArgMinFrom([k \in 1..Len(arr) |-> RAbs(RSub(arr[k], val))], 2, 1) - 1

\* np.linspace(lo, hi, n)
linspace(lo, hi, n) ==
  [k \in 1..n |-> RAdd(lo, RMul(Rat(k - 1, n - 1), RSub(hi, lo)))]

\* the grids searched: np.linspace(0.01, 0.20, 20) and shorter ones
IndexGrids ==
  {linspace(Rat(1, 100), Rat(20, 100), 20)}
    \cup {linspace(Rat(1, 100), Rat(n, 100), n) : n \in 2..MaxGrid}
\* queries: on the grid, half-way between points, below and above the grid
IndexVals == {Rat(v, 200) : v \in (0 - 2)..MaxVal} \cup {Rat(39, 200), Rat(40, 200), Rat(41, 200), Rat(2, 1)}

IndexInit ==
  /\ fi_arr \in IndexGrids
  /\ fi_val \in IndexVals
  /\ fi_out = 0
  /\ fi_pc = "call"
  /\ TableOff /\ CascadeOff /\ EstimateOff /\ MainOff

FindIndex ==
  /\ fi_pc = "call"
  /\ fi_out' = find_index(fi_arr, fi_val)
  /\ fi_pc' = "done"
  /\ UNCHANGED <<fi_arr, fi_val, tvars, cvars, evars, svars>>

IndexNext == FindIndex

SpecIndex == IndexInit /\ [][IndexNext]_vars


\* ------------------------------------------------------------------------
\* main (data_extraction.py) / simulate (adaptive.py): the evaluation loop
\* ------------------------------------------------------------------------
\* probe budgets of the loop (50 and 50 in the source)
N_probe == 1
M_probe == 1
cycle_time == Rat(1, 100)

\* the channel grid of the loop: gamma in (0, 3/4), given by sqrt(1 - gamma),
\* and p in (0, 1/2)
gammas == <<[sn |-> 1, sd |-> 1], [sn |-> 1, sd |-> 2]>>
ps == <<Rat(0, 1), Rat(1, 2)>>
GammaGrid == [k \in 1..Len(gammas) |-> Gamma(gammas[k])]
EvalCells == (0..(Len(gammas) - 1)) \X (0..(Len(ps) - 1))

\* entries (d, alpha) of a loaded table: alpha a float32, unit 2^-30
TableEntries == {<<1, 2 ^ 29>>, <<2, 2 ^ 28>>}

\* the loaded tables tried: depth 1 on the noiseless cell, depth 2 on the
\* noisiest one, either entry on the other cells
Tables ==
  {t \in [EvalCells -> TableEntries] :
     t[<<0, 0>>] = <<1, 2 ^ 29>> /\ t[<<1, 1>>] = <<2, 2 ^ 28>>}

\* int(lookup[i,j,0]), float(lookup[i,j,1])
ReadEntry(tbl, i, j) == [d |-> tbl[<<i, j>>][1], alpha |-> Rat(tbl[<<i, j>>][2], 2 ^ 30)]

RDiv(a, b) == RMul(a, Rat(b.d, b.n))

\* variant: the adaptive path reads the cell of the true channel
AdaptiveParams_TrueCell(tbl, i, j, gh, ph) ==
  LET e == ReadEntry(tbl, i, j)
  IN  [ii |-> i, jj |-> j, d |-> e.d, alpha |-> e.alpha]

\* ii = find_index(gammas, gh); jj = find_index(ps, ph);
\* d_ad, a_ad = int(lookup[ii,jj,0]), float(lookup[ii,jj,1])
AdaptiveParams(tbl, i, j, gh, ph) ==
  LET ii == find_index(GammaGrid, gh)
      jj == find_index(ps, ph)
      e == ReadEntry(tbl, ii, jj)
  IN  [ii |-> ii, jj |-> jj, d |-> e.d, alpha |-> e.alpha]

\* entry of static_purification(g, p, d, alpha)
CascadeCall(a) ==
  /\ args' = a
  /\ survivors' = [k \in 1..(2 ^ a.d) |-> two_qubit_noise(bell_proj, a.g, a.p)]
  /\ level' = 0
  /\ sp_pc' = "filter"
  /\ sp_out' = <<>>
  /\ UNCHANGED <<rt_rho, total_y, rt_round, rt_pc, rt_out>>

\* the loop starts on cell (0, 0) with a loaded table and an empty file
EvalInit ==
  /\ lookup \in Tables
  /\ res = <<>> /\ hist = <<>> /\ cur = <<>>
  /\ best_fid = <<>> /\ best_yield = <<>> /\ best_d = <<>> /\ best_alpha = <<>>
  /\ phase = "off"
  /\ cell = <<0, 0>>
  /\ sim_pc = "static"
  /\ st = <<>>
  /\ nrows = 0
  /\ last_row = <<>>
  /\ CascadeOff /\ EstimateOff /\ IndexOff

\* d_st, a_st = lookup[i,j]; static_purification(g, p, d_st, a_st) is called
StaticCall ==
  /\ sim_pc = "static"
  /\ LET e == ReadEntry(lookup, cell[1], cell[2])
     IN  /\ st' = [d_st |-> e.d, a_st |-> e.alpha]
         /\ CascadeCall([g |-> gammas[cell[1] + 1], p |-> ps[cell[2] + 1], d |-> e.d, alpha |-> e.alpha])
  /\ sim_pc' = "static_run"
  /\ UNCHANGED <<cell, nrows, last_row, tvars, evars, ivars>>

\* the static cascade has returned: R_st; estimate_channel(g, p, N_probe,
\* M_probe) is called
EstimateStart ==
  /\ sim_pc = "static_run"
  /\ sp_pc = "done"
  /\ st' = [d_st |-> st.d_st, a_st |-> st.a_st,
            F_raw |-> sp_out.F_raw, F_st |-> sp_out.F, Y_st |-> sp_out.Y,
            R_st |-> RMul(RDiv(Rat(2 ^ st.d_st, 1), cycle_time), sp_out.Y)]
  /\ EstimateCall([g |-> gammas[cell[1] + 1], p |-> ps[cell[2] + 1], N |-> N_probe, M |-> M_probe])
  /\ sim_pc' = "estimate"
  /\ UNCHANGED <<cell, nrows, last_row, tvars, cvars, ivars>>

\* the estimate has returned: the adaptive parameters are looked up and
\* static_purification(g, p, d_ad, a_ad) is called
AdaptiveCall ==
  /\ sim_pc = "estimate"
  /\ est_pc = "done"
  /\ LET ad == AdaptiveParams(lookup, cell[1], cell[2], est_out.gamma_hat, est_out.p_hat)
     IN  /\ st' = [d_st |-> st.d_st, a_st |-> st.a_st,
                   F_raw |-> st.F_raw, F_st |-> st.F_st, Y_st |-> st.Y_st, R_st |-> st.R_st,
                   ii |-> ad.ii, jj |-> ad.jj, d_ad |-> ad.d, a_ad |-> ad.alpha,
                   probes |-> est_out.cost]
         /\ CascadeCall([g |-> gammas[cell[1] + 1], p |-> ps[cell[2] + 1], d |-> ad.d, alpha |-> ad.alpha])
  /\ sim_pc' = "adaptive_run"
  /\ UNCHANGED <<cell, nrows, last_row, tvars, evars, ivars>>

\* variant: the probe overhead is not subtracted from R_ad
WriteRow_NoProbeCost ==
  /\ sim_pc = "adaptive_run"
  /\ sp_pc = "done"
  /\ LET R_ad == RMul(RDiv(Rat(2 ^ st.d_ad, 1), cycle_time), sp_out.Y)
         row == [gamma |-> Gamma(gammas[cell[1] + 1]), p |-> ps[cell[2] + 1],
                 d_static |-> st.d_st, alpha_static |-> st.a_st, F_raw |-> st.F_raw,
                 F_static |-> st.F_st, Y_static |-> st.Y_st, R_static |-> st.R_st,
                 d_adaptive |-> st.d_ad, alpha_adaptive |-> st.a_ad,
                 F_adaptive |-> sp_out.F, Y_adaptive |-> sp_out.Y, R_adaptive |-> R_ad,
                 delta_F |-> RSub(sp_out.F, st.F_st),
                 delta_Y |-> RSub(sp_out.Y, st.Y_st),
                 delta_T |-> RSub(R_ad, st.R_st)]
     IN  last_row' = row /\ nrows' = nrows + 1
  /\ IF cell[2] + 1 < Len(ps)
     THEN cell' = <<cell[1], cell[2] + 1>> /\ sim_pc' = "static"
     ELSE IF cell[1] + 1 < Len(gammas)
     THEN cell' = <<cell[1] + 1, 0>> /\ sim_pc' = "static"
     ELSE cell' = cell /\ sim_pc' = "done"
  /\ UNCHANGED <<st, tvars, cvars, evars, ivars>>

\* the adaptive cascade has returned: R_ad, the differences, writer.writerow;
\* the loop moves to the next cell
WriteRow ==
  /\ sim_pc = "adaptive_run"
  /\ sp_pc = "done"
  /\ LET R_ad == RSub(RMul(RDiv(Rat(2 ^ st.d_ad, 1), cycle_time), sp_out.Y),
                      RDiv(Rat(st.probes, 1), cycle_time))
         row == [gamma |-> Gamma(gammas[cell[1] + 1]), p |-> ps[cell[2] + 1],
                 d_static |-> st.d_st, alpha_static |-> st.a_st, F_raw |-> st.F_raw,
                 F_static |-> st.F_st, Y_static |-> st.Y_st, R_static |-> st.R_st,
                 d_adaptive |-> st.d_ad, alpha_adaptive |-> st.a_ad,
                 F_adaptive |-> sp_out.F, Y_adaptive |-> sp_out.Y, R_adaptive |-> R_ad,
                 delta_F |-> RSub(sp_out.F, st.F_st),
                 delta_Y |-> RSub(sp_out.Y, st.Y_st),
                 delta_T |-> RSub(R_ad, st.R_st)]
     IN  last_row' = row /\ nrows' = nrows + 1
  /\ IF cell[2] + 1 < Len(ps)
     THEN cell' = <<cell[1], cell[2] + 1>> /\ sim_pc' = "static"
     ELSE IF cell[1] + 1 < Len(gammas)
     THEN cell' = <<cell[1] + 1, 0>> /\ sim_pc' = "static"
     ELSE cell' = cell /\ sim_pc' = "done"
  /\ UNCHANGED <<st, tvars, cvars, evars, ivars>>

EvalNext ==
  \/ StaticCall
  \/ SP_Filter
  \/ SP_Purify
  \/ SP_Finish
  \/ EstimateStart
  \/ ProbeAmp
  \/ AmpDone
  \/ ProbePhase
  \/ PhaseDone
  \/ AdaptiveCall
  \/ WriteRow

SpecEval == EvalInit /\ [][EvalNext]_vars


\* ------------------------------------------------------------------------
\* Properties of the lookup-table builder
\* ------------------------------------------------------------------------
Eligible(t) == res[t].f >= Ftarget
Pos(t) == CHOOSE k \in 1..Len(hist) : hist[k] = t
\* what the trackers hold when candidate t is recorded
Recorded(t) ==
  [fid |-> res[t].f, yield |-> res[t].y, d |-> tasks[t].d, alpha |-> ToFloat32(tasks[t].alpha)]
Placeholder == [fid |-> NegInf, yield |-> NegInf, d |-> 0, alpha |-> 0]
AllMerged == Merged = TaskIds

\* C1: once all candidates of a cell are merged and one of them is eligible
\* (mean fidelity >= Ftarget), the recorded best is an eligible candidate of
\* maximal mean yield among the eligible ones, in every merge order.
C1_BestIsMaxYieldEligible ==
  AllMerged =>
    \A c \in Cells :
      LET E == {t \in TasksOf(c) : Eligible(t)}
      IN  E # {} =>
            \E t \in E : /\ \A u \in E : res[u].y <= res[t].y
                         /\ BestOf(c) = Recorded(t)

\* C2: once the recorded best of a cell is an eligible candidate, merging an
\* ineligible candidate leaves the four trackers of the cell unchanged.
C2_IneligibleNeverOverwritesEligible ==
  [][\A t \in TaskIds :
       (/\ hist' = Append(hist, t)
        /\ best_fid[CellOf(t)] >= Ftarget
        /\ ~Eligible(t))
       => /\ best_fid'[CellOf(t)] = best_fid[CellOf(t)]
          /\ best_yield'[CellOf(t)] = best_yield[CellOf(t)]
          /\ best_d'[CellOf(t)] = best_d[CellOf(t)]
          /\ best_alpha'[CellOf(t)] = best_alpha[CellOf(t)]]_tvars

\* an eligible candidate was recorded first, and an ineligible candidate of
\* the same cell with a higher yield was merged after it
C2_Witness ==
  \E k, m \in 1..Len(hist) :
    /\ k < m
    /\ CellOf(hist[k]) = CellOf(hist[m])
    /\ \A n \in 1..(k - 1) : CellOf(hist[n]) # CellOf(hist[k])
    /\ Eligible(hist[k])
    /\ ~Eligible(hist[m])
    /\ res[hist[m]].y > res[hist[k]].y
    /\ BestOf(CellOf(hist[k])) = Recorded(hist[k])

\* C3: the first eligible candidate of a cell to be merged becomes the
\* recorded best, whatever ineligible candidates were recorded before it.
C3_FirstEligibleBecomesBest ==
  \A t \in Merged :
    (/\ Pos(t) = Len(hist)
     /\ Eligible(t)
     /\ \A u \in Merged \ {t} : CellOf(u) = CellOf(t) => ~Eligible(u))
    => BestOf(CellOf(t)) = Recorded(t)

\* C4: if no candidate of a cell is eligible, then after all are merged the
\* recorded best is the first merged candidate among those of maximal mean
\* fidelity, together with that candidate's own yield.
C4_FallbackIsFirstMaxFidelity ==
  AllMerged =>
    \A c \in Cells :
      (\A t \in TasksOf(c) : ~Eligible(t)) =>
        \E t \in TasksOf(c) :
          /\ \A u \in TasksOf(c) : res[u].f <= res[t].f
          /\ \A u \in TasksOf(c) : res[u].f = res[t].f => Pos(t) <= Pos(u)
          /\ BestOf(c) = Recorded(t)

\* an infeasible cell whose two best candidates tie on fidelity, the later
\* merged one having the higher yield
C4_Witness ==
  /\ AllMerged
  /\ \E c \in Cells :
       /\ \A t \in TasksOf(c) : ~Eligible(t)
       /\ \E t, u \in TasksOf(c) :
            /\ Pos(t) < Pos(u)
            /\ res[t].f = res[u].f
            /\ \A v \in TasksOf(c) : res[v].f <= res[t].f
            /\ res[u].y > res[t].y
            /\ BestOf(c) = Recorded(t)

\* the table that merging the results in the order of the task list gives
RECURSIVE SeqBest(_, _)
SeqBest(c, k) ==
  IF k = 0 THEN Placeholder
  ELSE IF CellOf(k) = c
       THEN MergeCell(SeqBest(c, k - 1), tasks[k].d, tasks[k].alpha, res[k].f, res[k].y)
       ELSE SeqBest(c, k - 1)

\* C5: for fixed per-candidate results the saved table does not depend on
\* the order in which the results reach the aggregation loop: it is the one
\* obtained by merging them in task-list order.
C5_TableIndependentOfArrivalOrder ==
  phase = "saved" =>
    \A c \in Cells :
      lookup[c] = <<SeqBest(c, NumTasks).d, SeqBest(c, NumTasks).alpha>>

\* C6 (as stated): after all results are merged every cell holds the depth
\* and the alpha of an evaluated candidate of that cell, the alpha being a
\* point of the alpha grid, and the four trackers come from one candidate.
C6_CellHoldsGridCandidate ==
  phase = "saved" =>
    \A c \in Cells :
      \E t \in TasksOf(c) :
        /\ BestOf(c) = [Recorded(t) EXCEPT !.alpha = tasks[t].alpha]
        /\ lookup[c] = <<tasks[t].d, tasks[t].alpha>>

\* C6 (amended): at every point of the loop the four trackers of a cell are
\* the placeholder (no candidate of the cell merged yet) or the values of one
\* merged candidate of the cell, its alpha rounded to float32; after the
\* save every cell of the table holds such a candidate, never the placeholder.
C6_CellHoldsOneCandidate ==
  /\ \A c \in Cells :
       IF TasksOf(c) \cap Merged = {}
       THEN BestOf(c) = Placeholder
       ELSE \E t \in TasksOf(c) \cap Merged : BestOf(c) = Recorded(t)
  /\ phase = "saved" =>
       \A c \in Cells :
         \E t \in TasksOf(c) :
           /\ BestOf(c) = Recorded(t)
           /\ lookup[c] = <<tasks[t].d, ToFloat32(tasks[t].alpha)>>
           /\ lookup[c][1] \in {depths[k] : k \in DepthIdx}
           /\ lookup[c][1] # 0 /\ lookup[c][2] # 0

\* the table is saved with one cell that has no eligible candidate and two
\* different fidelities, and another cell that has an eligible candidate
C6_Witness ==
  /\ phase = "saved"
  /\ \E c, e \in Cells :
       /\ \A t \in TasksOf(c) : ~Eligible(t)
       /\ \E t, u \in TasksOf(c) : res[t].f < res[u].f /\ Pos(t) < Pos(u)
       /\ \E t \in TasksOf(e) : Eligible(t)

\* ------------------------------------------------------------------------
\* Properties of the cascades on a noiseless channel
\* ------------------------------------------------------------------------
Noiseless(a) == a.g = NoGamma /\ a.p = RZero

\* filter success probability on |Phi+>: (alpha^2 + (1 - alpha)^2) / 2
BellFilterProb(alpha) ==
  Rat(alpha.n * alpha.n + (alpha.d - alpha.n) * (alpha.d - alpha.n), 2 * alpha.d * alpha.d)
\* overlap after one round on two filtered ideal pairs:
\* 1/2 + 2 alpha^2 (1 - alpha)^2 / (alpha^2 + (1 - alpha)^2)^2
BellRoundOverlap(alpha) ==
  LET a == alpha.n
      b == alpha.d - alpha.n
  IN  RAdd(Rat(1, 2), Rat(2 * a * a * b * b, (a * a + b * b) * (a * a + b * b)))

\* C7 (as stated): with gamma = p = 0 and depth 1 both cascades return
\* fidelity 1.0 and yield 1.0 for every alpha in (0, 1).
C7_NoiselessFidelityYieldOne ==
  (Noiseless(args) /\ args.d = 1) =>
     /\ sp_pc = "done" => (sp_out.F = ROne /\ sp_out.Y = ROne)
     /\ rt_pc = "done" => (rt_out.F = ROne /\ rt_out.y = ROne)

\* C7 (amended): with gamma = p = 0 and depth 1 the DEJMPS round succeeds
\* with probability 1, but each filter passes a pair only with probability
\* pf = (alpha^2 + (1-alpha)^2)/2 < 1: run_trial returns yield pf^2 < 1 and
\* fidelity 1/2 + 2 alpha^2 (1-alpha)^2/(alpha^2 + (1-alpha)^2)^2, which is 1
\* exactly for alpha = 1/2; static_purification returns (0, 0) or that same
\* fidelity with yield 1/2.
C7_NoiselessDepthOne ==
  (Noiseless(args) /\ args.d = 1) =>
     LET pf == BellFilterProb(args.alpha)
         Fa == BellRoundOverlap(args.alpha)
     IN  /\ RLess(pf, ROne)
         /\ (Fa = ROne) <=> (args.alpha = Rat(1, 2))
         /\ rt_pc = "done" => rt_out = [F |-> Fa, y |-> RMul(pf, pf)]
         /\ rt_pc = "loop" /\ rt_round = 1 => total_y = RMul(pf, pf)
         /\ sp_pc = "done" => \/ sp_out = [F_raw |-> ROne, F |-> RZero, Y |-> RZero]
                              \/ sp_out = [F_raw |-> ROne, F |-> Fa, Y |-> Rat(1, 2)]

\* a noiseless depth-1 tree cascade with alpha = 1/4 ended with a survivor
C7_Witness ==
  /\ Noiseless(args) /\ args.d = 1 /\ args.alpha = Rat(1, 4)
  /\ sp_pc = "done"
  /\ sp_out.Y = Rat(1, 2)

\* every state of the cascades is an X state (apply_filter is exact on them)
XStates ==
  /\ rt_pc # "off" => IsXState(rt_rho)
  /\ sp_pc # "off" => \A k \in 1..Len(survivors) : IsXState(survivors[k])

\* ------------------------------------------------------------------------
\* Properties of the estimator
\* ------------------------------------------------------------------------
\* C8: with gamma_true = p_true = 0 every amplitude probe is counted and no
\* phase probe is, so estimate_channel returns gamma_hat = 0, p_hat = 0 and
\* cost N + M.
C8_NoiselessEstimateIsExact ==
  (est_pc # "off" /\ Noiseless(est_args)) =>
     /\ est_pc = "amp" => n1 = est_k
     /\ est_pc \in {"phase", "done"} => n1 = est_args.N
     /\ m_minus = 0
     /\ est_pc = "done" =>
          est_out = [gamma_hat |-> RZero, p_hat |-> RZero, cost |-> est_args.N + est_args.M]

\* a noiseless estimate with two probes of each kind has returned
C8_Witness ==
  /\ est_pc = "done"
  /\ Noiseless(est_args)
  /\ est_args.N = 2 /\ est_args.M = 2

\* ------------------------------------------------------------------------
\* Properties of find_index
\* ------------------------------------------------------------------------
Dist(k) == RAbs(RSub(fi_arr[k + 1], fi_val))

\* C10: find_index returns the lowest index among those nearest to val; a
\* value equal to a grid point returns that point's index.
C10_FindIndexNearest ==
  fi_pc = "done" =>
    /\ fi_out \in 0..(Len(fi_arr) - 1)
    /\ \A m \in 0..(Len(fi_arr) - 1) : RLeq(Dist(fi_out), Dist(m))
    /\ \A m \in 0..(fi_out - 1) : RLess(Dist(fi_out), Dist(m))
    /\ \A m \in 0..(Len(fi_arr) - 1) : fi_arr[m + 1] = fi_val => fi_out = m

\* the query lies half-way between two grid points and the lower one is returned
C10_Witness ==
  /\ fi_pc = "done"
  /\ fi_out + 2 <= Len(fi_arr)
  /\ Dist(fi_out) = Dist(fi_out + 1)
  /\ Dist(fi_out).n > 0

\* ------------------------------------------------------------------------
\* Properties of the evaluation loop
\* ------------------------------------------------------------------------
TrueGamma == gammas[cell[1] + 1]
TrueP == ps[cell[2] + 1]
\* k is the lowest index of arr nearest to val
NearestIdx(arr, val, k) ==
  /\ k \in 0..(Len(arr) - 1)
  /\ \A m \in 0..(Len(arr) - 1) :
       RLeq(RAbs(RSub(arr[k + 1], val)), RAbs(RSub(arr[m + 1], val)))
  /\ \A m \in 0..(k - 1) :
       RLess(RAbs(RSub(arr[k + 1], val)), RAbs(RSub(arr[m + 1], val)))
CascadeRunning == sp_pc \in {"filter", "purify", "finish"}
EstimateRunning == est_pc \in {"amp", "phase"}

C9_DataFlow ==
  /\ sim_pc = "static_run" =>
       args = [g |-> TrueGamma, p |-> TrueP,
               d |-> lookup[cell][1], alpha |-> Rat(lookup[cell][2], 2 ^ 30)]
  /\ CascadeRunning => sim_pc \in {"static_run", "adaptive_run"} /\ ~EstimateRunning
  /\ EstimateRunning =>
       sim_pc = "estimate" /\ est_args.g = TrueGamma /\ est_args.p = TrueP
  /\ sim_pc = "adaptive_run" =>
       /\ est_pc = "done"
       /\ \E ii \in 0..(Len(gammas) - 1), jj \in 0..(Len(ps) - 1) :
            /\ NearestIdx(GammaGrid, est_out.gamma_hat, ii)
            /\ NearestIdx(ps, est_out.p_hat, jj)
            /\ args = [g |-> TrueGamma, p |-> TrueP,
                       d |-> lookup[<<ii, jj>>][1],
                       alpha |-> Rat(lookup[<<ii, jj>>][2], 2 ^ 30)]

\* C9: in every cell the static cascade runs on the true channel with the
\* entry of the cell itself; the adaptive cascade starts only after the
\* estimate has returned, with the entry of the cell nearest to the estimate,
\* on the true channel; the table is never written during the loop.
C9_AdaptiveOrderAndDataFlow == []C9_DataFlow /\ [][lookup' = lookup]_vars

\* an adaptive cascade has run with the entry of a cell other than the true
\* one, and that entry differs from the true cell's
C9_Witness ==
  /\ sim_pc = "adaptive_run"
  /\ sp_pc = "done"
  /\ <<st.ii, st.jj>> # cell
  /\ lookup[<<st.ii, st.jj>>] # lookup[cell]
  /\ Gamma(args.g) # est_out.gamma_hat

\* ------------------------------------------------------------------------
\* Properties of the tree cascade
\* ------------------------------------------------------------------------
\* C11: when the survivor list is empty at the end of a level before depth d
\* is reached, static_purification starts no further level and returns
\* fidelity 0 and yield 0 as an ordinary return value.
C11_EmptySurvivorsEndCascade ==
  sp_pc # "off" =>
    /\ (sp_pc = "filter" /\ level > 0) => survivors # <<>>
    /\ sp_pc \in {"finish", "done"} => (level = args.d \/ survivors = <<>>)
    /\ (sp_pc = "done" /\ survivors = <<>>) =>
         /\ sp_out.F = RZero
         /\ sp_out.Y = RZero
         /\ sp_out.F_raw = Overlap(two_qubit_noise(bell_proj, args.g, args.p))

\* a depth-2 cascade has returned after its first level, without survivors
C11_Witness ==
  /\ sp_pc = "done"
  /\ args.d = 2
  /\ level = 1
  /\ survivors = <<>>
  /\ sp_out.Y = RZero

\* ------------------------------------------------------------------------
\* Properties of the single-branch cascades
\* ------------------------------------------------------------------------
\* the arguments of the call under way, with depth d
AtDepth(d) == [args EXCEPT !.d = d]

\* C12: for fixed (gamma, p, alpha) the yield returned by run_trial at depth
\* d + 1 is at most the yield returned at depth d, for every d >= 0, and so
\* for simulate_run; the run that the loop performs returns what run_trial
\* evaluates to.
C12_YieldNonIncreasingInDepth ==
  rt_pc # "off" =>
    /\ \A d \in 0..(args.d - 1) :
         RCmp(run_trial(AtDepth(d + 1)).y, run_trial(AtDepth(d)).y) <= 0
    /\ \A d \in 0..(args.d - 1), redefined \in BOOLEAN :
         RCmp(simulate_run(redefined, args.g, args.p, d + 1).y,
              simulate_run(redefined, args.g, args.p, d).y) <= 0
    /\ rt_pc = "done" => (rt_out.F = run_trial(args).F /\ rt_out.y = run_trial(args).y)
    /\ (rt_pc = "loop" /\ rt_round <= args.d) => total_y = run_trial(AtDepth(rt_round)).y

\* a depth-3 run has returned a positive yield strictly below the depth-2
\* yield, which is strictly below the depth-1 yield
C12_Witness ==
  /\ rt_pc = "done"
  /\ args.d = 3
  /\ rt_out.y.n > 0
  /\ RCmp(rt_out.y, run_trial(AtDepth(2)).y) < 0
  /\ RCmp(run_trial(AtDepth(2)).y, run_trial(AtDepth(1)).y) < 0

\* ------------------------------------------------------------------------
\* Properties of the DEJMPS round
\* ------------------------------------------------------------------------
\* C13: dejmps_purify on two ideal pairs |Phi+><Phi+| returns success
\* probability 1 and the state |Phi+><Phi+| (overlap 1); so in a noiseless
\* cascade with the neutral filter alpha = 1/2 every purified state is the
\* ideal pair again.
C13_IdealPairIsFixedPoint ==
  /\ dejmps_purify(bell_proj, bell_proj) = [rho |-> bell_proj, p |-> ROne]
  /\ Overlap(dejmps_purify(bell_proj, bell_proj).rho) = ROne
  /\ (args # <<>> /\ Noiseless(args) /\ args.alpha = Rat(1, 2)) =>
       /\ (rt_pc # "off" /\ rt_round >= 1) => rt_rho = bell_proj
       /\ (sp_pc # "off" /\ level >= 1) =>
            \A k \in 1..Len(survivors) : survivors[k] = bell_proj

\* three rounds on ideal pairs have been run and the result is still ideal
C13_Witness ==
  /\ rt_pc = "done"
  /\ Noiseless(args) /\ args.alpha = Rat(1, 2)
  /\ args.d = 3
  /\ rt_out.F = ROne

\* ------------------------------------------------------------------------
\* Properties of the noise channel
\* ------------------------------------------------------------------------
\* the trace-1 states at hand: the ideal pair, and the noisy and the filtered
\* pairs of the first level of the cascade under way
StatesAtHand ==
  {bell_proj}
    \cup (IF rt_pc # "off" /\ rt_round = 0 THEN {rt_rho} ELSE {})
    \cup (IF sp_pc # "off" /\ level = 0 THEN {survivors[k] : k \in 1..Len(survivors)} ELSE {})

\* noise.py: two_qubit_noise keeps the trace of every state at hand at 1
NoisePyKeepsTrace ==
  args # <<>> =>
    \A rho \in StatesAtHand :
      Tr(rho) = ROne => Tr(two_qubit_noise(rho, args.g, args.p)) = ROne

\* C14: two_qubit_noise returns a state of trace 1 for every gamma, p and
\* every trace-1 input, both in noise.py and as redefined in simulate.py.
C14_NoiseTracePreserving ==
  args # <<>> =>
    \A rho \in StatesAtHand :
      Tr(rho) = ROne =>
        /\ Tr(two_qubit_noise(rho, args.g, args.p)) = ROne
        /\ Tr(sim_two_qubit_noise(rho, args.g, args.p)) = ROne

\* ------------------------------------------------------------------------
\* Properties of the lookup-table builder: isolation
\* ------------------------------------------------------------------------
Trackers == <<best_fid, best_yield, best_d, best_alpha>>

\* C15: the results of the worker tasks are never altered by the aggregation;
\* the four shared arrays change only in a step of the aggregating loop that
\* merges exactly one result, and merging the result of a task of cell (i, j)
\* leaves every other cell of the four arrays unchanged.
C15_MergeTouchesOwnCellOnly ==
  [][/\ res' = res
     /\ Trackers' # Trackers => \E t \in TaskIds : hist' = Append(hist, t)
     /\ \A t \in TaskIds :
          hist' = Append(hist, t) =>
            \A c \in Cells :
              c # <<tasks[t].i, tasks[t].j>> =>
                /\ best_fid'[c] = best_fid[c]
                /\ best_yield'[c] = best_yield[c]
                /\ best_d'[c] = best_d[c]
                /\ best_alpha'[c] = best_alpha[c]]_tvars

\* a result was recorded for one cell while another cell already held a
\* recorded candidate with different values
C15_Witness ==
  /\ Len(hist) >= 2
  /\ CellOf(hist[1]) # CellOf(hist[Len(hist)])
  /\ BestOf(CellOf(hist[Len(hist)])) = Recorded(hist[Len(hist)])
  /\ BestOf(CellOf(hist[1])) = Recorded(hist[1])
  /\ res[hist[1]] # res[hist[Len(hist)]]

\* ------------------------------------------------------------------------
\* Properties of the tree cascade: the survivor list
\* ------------------------------------------------------------------------
Elems(s) == {s[k] : k \in 1..Len(s)}
\* the states apply_filter returns for the pairs of s
FilteredOf(s) == {apply_filter(s[k], args.alpha).rho : k \in 1..Len(s)}
\* the states dejmps_purify returns for two different pairs of s
PurifiedOf(s) ==
  {dejmps_purify(s[pr[1]], s[pr[2]]).rho :
     pr \in {q \in (1..Len(s)) \X (1..Len(s)) : q[1] # q[2]}} \ {None}

\* C16: in static_purification the number of survivors never grows, neither
\* in the filter step nor in the purification step of a level, and the list
\* handed to the next level holds only purified outputs of this level: no
\* filtered-but-unpurified pair and no raw pair is carried over.
C16_SurvivorsShrinkToPurifiedOutputs ==
  [][/\ Len(survivors') <= Len(survivors)
     /\ sp_pc = "filter" => Elems(survivors') \subseteq FilteredOf(survivors)
     /\ sp_pc = "purify" =>
          /\ Elems(survivors') \subseteq PurifiedOf(survivors)
          /\ \A k \in 1..Len(survivors') : ~IsNone(survivors'[k])
          /\ Len(survivors) >= 2 * Len(survivors')]_cvars

\* a pair has survived both levels of a depth-2 cascade on a noisy channel
\* with a biased filter
C16_Witness ==
  /\ sp_pc = "done"
  /\ args.d = 2 /\ level = 2
  /\ Len(survivors) = 1
  /\ ~Noiseless(args) /\ args.alpha # Rat(1, 2)

\* ------------------------------------------------------------------------
\* Properties of run_trial: termination
\* ------------------------------------------------------------------------
\* the success probabilities of the three steps of a round of run_trial that
\* starts from rho: filter of the pair, filter of the fresh pair, DEJMPS
RoundProbs(x, rho) ==
  LET f1 == apply_filter(rho, x.alpha)
      f2 == apply_filter(two_qubit_noise(bell_proj, x.g, x.p), x.alpha)
  IN  <<f1.p, f2.p,
        IF f1.p.n = 0 \/ f2.p.n = 0 THEN ROne ELSE dejmps_purify(f1.rho, f2.rho).p>>
RoundHasZero(x, rho) == \E s \in 1..3 : RoundProbs(x, rho)[s].n = 0

\* C17: run_trial(gamma, p, d, alpha) always terminates: after exactly d
\* filter+purify rounds when every round has non-zero success probability, or
\* in the first round with a step (filter of either pair, DEJMPS) of success
\* probability 0; it then returns fidelity 0 and yield 0 and runs no later
\* round.  Termination: the round counter never passes d (so that one of
\* RT_Round, RT_Finish can be taken while the trial runs), and every step
\* either ends the trial or starts the next of at most d rounds.
C17_TrialTerminates ==
  /\ [](rt_pc # "off" =>
          /\ rt_round <= args.d
          /\ rt_pc \in {"loop", "done"}
          /\ rt_pc = "done" =>
               \/ rt_round = args.d /\ rt_out = [F |-> Overlap(rt_rho), y |-> total_y]
               \/ /\ rt_round < args.d
                  /\ RoundHasZero(args, rt_rho)
                  /\ rt_out = [F |-> RZero, y |-> RZero])
  /\ [][rt_pc = "loop" =>
          \/ /\ ~RoundHasZero(args, rt_rho) /\ rt_round < args.d
             /\ rt_round' = rt_round + 1 /\ rt_pc' = "loop"
          \/ /\ RoundHasZero(args, rt_rho) \/ rt_round = args.d
             /\ rt_round' = rt_round /\ rt_rho' = rt_rho /\ rt_pc' = "done"]_cvars

\* a trial of depth 2 has ended in its first round with a zero probability
C17_Witness ==
  /\ rt_pc = "done"
  /\ args.d = 2 /\ rt_round = 0
  /\ RoundHasZero(args, rt_rho)
  /\ rt_out = [F |-> RZero, y |-> RZero]

\* ------------------------------------------------------------------------
\* Failure signalling
\* ------------------------------------------------------------------------
\* float(rho_f.tr()) of apply_filter, numerator: the diagonal of rho weighted
\* by the squares of the diagonal of F (x) F
FilterTraceNum(rho, alpha) == Sum4(LAMBDA i : FilterWeight(alpha, i, i) * Ent(rho, i, i))

\* the states the running cascade holds
HeldStates ==
  Elems(survivors) \cup (IF rt_pc = "loop" THEN {rt_rho} ELSE {})
\* the states the next step passes to apply_filter
FilterInputs ==
  (IF sp_pc = "filter" THEN Elems(survivors) ELSE {})
    \cup (IF rt_pc = "loop" /\ rt_round < args.d
          THEN {rt_rho, two_qubit_noise(bell_proj, args.g, args.p)} ELSE {})
\* the pairs of states the next step can pass to dejmps_purify
PurifyInputs ==
  (IF sp_pc = "purify" THEN Elems(survivors) \X Elems(survivors) ELSE {})
    \cup (IF rt_pc = "loop" /\ rt_round < args.d
          THEN LET f1 == apply_filter(rt_rho, args.alpha)
                   f2 == apply_filter(two_qubit_noise(bell_proj, args.g, args.p), args.alpha)
               IN  IF f1.p.n = 0 \/ f2.p.n = 0 THEN {} ELSE {<<f1.rho, f2.rho>>}
          ELSE {})

\* C18: apply_filter and dejmps_purify return a null state, with probability
\* 0.0, exactly when the success probability they compute is 0; a null result
\* eliminates its pair or branch: no null state is in the survivor list or is
\* held by a running trial, so none reaches a later filter, round or fidelity.
C18_NullExactlyOnZeroProbability ==
  /\ \A rho \in HeldStates : ~IsNone(rho)
  /\ \A rho \in FilterInputs :
       LET r == apply_filter(rho, args.alpha)
       IN  /\ IsNone(r.rho) <=> FilterTraceNum(rho, args.alpha) = 0
           /\ IsNone(r.rho) <=> r.p = RZero
  /\ \A pr \in PurifyInputs :
       LET r == dejmps_purify(pr[1], pr[2])
       IN  /\ ~IsNone(pr[1]) /\ ~IsNone(pr[2])
           /\ IsNone(r.rho) <=> r.p = RZero
  /\ sp_pc = "done" => (sp_out.F.n > 0 => survivors # <<>>)
  /\ rt_pc = "done" /\ rt_round < args.d =>
       /\ rt_out = [F |-> RZero, y |-> RZero]
       /\ \/ IsNone(apply_filter(rt_rho, args.alpha).rho)
          \/ IsNone(apply_filter(two_qubit_noise(bell_proj, args.g, args.p), args.alpha).rho)
          \/ IsNone(dejmps_purify(apply_filter(rt_rho, args.alpha).rho,
                                  apply_filter(two_qubit_noise(bell_proj, args.g, args.p),
                                               args.alpha).rho).rho)
  /\ \A redefined \in BOOLEAN : \A k \in 0..2 :
       LET rho0 == SimNoise(redefined, bell_proj, args.g, args.p)
           r == simulate_run(redefined, args.g, args.p, k)
       IN  IsNone(dejmps_purify(rho0, rho0).rho) /\ k > 0 => r.F2 = RZero /\ r.y = RZero

\* the filter has returned a null state for every pair of a tree cascade,
\* and no pair is left
C18_Witness ==
  /\ sp_pc = "purify" /\ level = 0
  /\ IsNone(apply_filter(two_qubit_noise(bell_proj, args.g, args.p), args.alpha).rho)
  /\ survivors = <<>>

\* ------------------------------------------------------------------------
\* The bilateral CNOT
\* ------------------------------------------------------------------------
\* entry (i, j) of cnot_4qubit(c1, t1) * cnot_4qubit(c2, t2)
CnotProduct(c1, t1, c2, t2, i, j) ==
  LET RECURSIVE upto(_)
      upto(k) == IF k < 0 THEN 0
                 ELSE cnot_4qubit(c1, t1, i, k) * cnot_4qubit(c2, t2, k, j) + upto(k - 1)
  IN  upto(15)
\* the basis state i with its target bit flipped when its control bit is 1
FlipTarget(control, target, i) ==
  IF Bit(i, control) = 0 THEN i
  ELSE IF Bit(i, target) = 0 THEN i + 2 ^ (3 - target) ELSE i - 2 ^ (3 - target)
OperatorsCommute ==
  \A i, j \in Idx4 : CnotProduct(0, 2, 1, 3, i, j) = CnotProduct(1, 3, 0, 2, i, j)
OperatorsPermute ==
  \A ct \in {<<0, 2>>, <<1, 3>>} : \A i, j \in Idx4 :
    cnot_4qubit(ct[1], ct[2], i, j) = IF i = FlipTarget(ct[1], ct[2], j) THEN 1 ELSE 0
\* U * rho1 (x) rho2 * U.dag() for the permutation with columns cols
Conjugated(cols, rho4) == [i \in Idx4 |-> [j \in Idx4 |-> rho4[cols[i + 1]][cols[j + 1]]]]
Combined(rho1, rho2) ==
  [i \in Idx4 |-> [j \in Idx4 |-> Ent(rho1, i \div 4, j \div 4) * Ent(rho2, i % 4, j % 4)]]

\* C19: cnot_4qubit(0, 2) and cnot_4qubit(1, 3) commute, so that Alice's then
\* Bob's CNOT gives the same 4-qubit state as Bob's then Alice's on every
\* two pairs a round is run on; each operator acts on the 16 basis states as
\* the permutation that flips the target bit exactly when the control bit
\* is 1 and leaves the other bits unchanged.
C19_BilateralCnotCommutes ==
  /\ OperatorsCommute
  /\ OperatorsPermute
  /\ \A i \in Idx4 : /\ CNOT_A[i + 1] = FlipTarget(0, 2, i)
                     /\ CNOT_B[i + 1] = FlipTarget(1, 3, i)
  /\ \A pr \in PurifyInputs :
       LET rho4 == Combined(pr[1], pr[2])
       IN  Conjugated(CNOT_B, Conjugated(CNOT_A, rho4)) = Conjugated(CNOT_A, Conjugated(CNOT_B, rho4))

\* a round is about to run on two noisy pairs that the bilateral CNOT changes
C19_Witness ==
  /\ sp_pc = "purify" /\ Len(survivors) >= 2
  /\ ~Noiseless(args)
  /\ LET rho4 == Combined(survivors[1], survivors[2])
     IN  /\ Conjugated(CNOT_A, rho4) # rho4
         /\ Conjugated(CNOT_B, Conjugated(CNOT_A, rho4)) # Conjugated(CNOT_A, rho4)

\* ------------------------------------------------------------------------
\* The halving bound of the tree cascade
\* ------------------------------------------------------------------------
\* C20: at every level of static_purification the purified outputs are at
\* most floor(n / 2) for n pairs that passed the filter, the unpaired last
\* survivor of an odd n being dropped; hence of the 2^d initial pairs at most
\* 2^(d - k) are left after k levels, at most one after d levels, and the
\* reported yield, final survivor count / 2^d, is at most 1 / 2^d.
C20_HalvingBound ==
  /\ [](sp_pc # "off" =>
          /\ Len(survivors) <= 2 ^ (args.d - level)
          /\ sp_pc = "done" =>
               /\ Len(survivors) <= 1
               /\ sp_out.Y = Rat(Len(survivors), 2 ^ args.d)
               /\ RLeq(sp_out.Y, Rat(1, 2 ^ args.d)))
  /\ [][sp_pc = "purify" => Len(survivors') <= Len(survivors) \div 2]_cvars

\* the bound is met: one pair is left after the two levels of a depth-2
\* cascade and the reported yield is 1/4
C20_Witness ==
  /\ sp_pc = "done"
  /\ args.d = 2 /\ level = 2
  /\ sp_out.Y = Rat(1, 4)

\* ------------------------------------------------------------------------
\* Throughput accounting of the evaluation loop
\* ------------------------------------------------------------------------
\* 2^d * Y of a written row: the final survivor count of the cascade
PairsOut(d, Y) == RMul(Rat(2 ^ d, 1), Y)

\* C21: in every written row the adaptive throughput
\* R_ad = 2^d_ad * Y_ad / cycle_time - probes / cycle_time is strictly below
\* the static throughput R_st = 2^d_st * Y_st / cycle_time: 2^d * Y is the
\* final survivor count, 0 or 1, and the probe cost N_probe + M_probe is
\* larger; the recorded throughput difference is negative.
C21_AdaptiveThroughputBelowStatic ==
  nrows > 0 =>
    /\ PairsOut(last_row.d_static, last_row.Y_static) \in {RZero, ROne}
    /\ PairsOut(last_row.d_adaptive, last_row.Y_adaptive) \in {RZero, ROne}
    /\ last_row.R_static = RDiv(PairsOut(last_row.d_static, last_row.Y_static), cycle_time)
    /\ last_row.R_adaptive =
         RSub(RDiv(PairsOut(last_row.d_adaptive, last_row.Y_adaptive), cycle_time),
              RDiv(Rat(N_probe + M_probe, 1), cycle_time))
    /\ last_row.R_static.n >= 0
    /\ last_row.R_adaptive.n < 0
    /\ RLess(last_row.R_adaptive, last_row.R_static)
    /\ last_row.delta_T.n < 0

\* a row where the adaptive cascade kept a pair and the static one lost all
C21_Witness ==
  /\ nrows > 0
  /\ last_row.Y_static = RZero
  /\ last_row.Y_adaptive.n > 0

\* ------------------------------------------------------------------------
\* Range of the estimates and safety of the adaptive lookup
\* ------------------------------------------------------------------------
InRange(x, lo, hi) == RLeq(lo, x) /\ RLeq(x, hi)
\* gammas = ps = np.linspace(0.01, 0.20, 20) of the source
SourceGrid == linspace(Rat(1, 100), Rat(20, 100), 20)

\* C22: for N > 0 and M > 0 and every sequence of probe outcomes
\* estimate_channel returns gamma_hat = 1 - n1/N in [0, 1], p_hat = 2*m/M in
\* [0, 2] and the cost N + M whatever the outcomes; find_index maps each of
\* the two estimates to an index inside the grid (the edge index for an
\* estimate outside the grid), so the table is read inside its bounds.
C22_EstimateInRangeAndLookupSafe ==
  /\ est_pc \in {"amp", "phase", "done"} =>
       /\ est_args.N > 0 /\ est_args.M > 0
       /\ n1 \in 0..est_args.N /\ m_minus \in 0..est_args.M
  /\ est_pc = "done" =>
       /\ est_out.gamma_hat = RSub(ROne, Rat(n1, est_args.N))
       /\ est_out.p_hat = Rat(2 * m_minus, est_args.M)
       /\ InRange(est_out.gamma_hat, RZero, ROne)
       /\ InRange(est_out.p_hat, RZero, Rat(2, 1))
       /\ est_out.cost = est_args.N + est_args.M
       /\ \A grid \in {SourceGrid, GammaGrid, ps} : \A v \in {est_out.gamma_hat, est_out.p_hat} :
            LET k == find_index(grid, v)
            IN  /\ k \in 0..(Len(grid) - 1)
                /\ RLeq(grid[Len(grid)], v) => k = Len(grid) - 1
                /\ RLeq(v, grid[1]) => k = 0

\* p_hat is above 1 and both estimates lie above the grid: the last index is
\* returned for both
C22_Witness ==
  /\ est_pc = "done"
  /\ est_args.N = 2 /\ est_args.M = 2
  /\ est_out.gamma_hat = ROne
  /\ RLess(ROne, est_out.p_hat)
  /\ find_index(SourceGrid, est_out.gamma_hat) = 19
  /\ find_index(SourceGrid, est_out.p_hat) = 19

=============================================================================
